---- MODULE Spec2Model ----
(***************************************************************************)
(* maccal: the free-time computation of src/maccal/availability.py.        *)
(*                                                                         *)
(* Instants are integers on one time line.  _merge_intervals and           *)
(* _find_gaps work on (start, end) pairs of instants; find_free_time       *)
(* works on datetimes, which carry the instant and whether the datetime    *)
(* is timezone-aware, and on the NSDate values of the fetched events.      *)
(***************************************************************************)
EXTENDS Integers, Sequences, FiniteSets, TLC

\* ------------------------------------------------------------------ bounds
\* instants are 0 .. MaxTime
MaxTime == 4
\* the longest list handed to _merge_intervals or _find_gaps
MaxLen == 3
\* the most events the provider returns to one find_free_time call
MaxEvents == 2
\* the longest minimum duration asked for
MaxDuration == 2
\* run-loop turns of _request_access that are told apart
MaxPolls == 3
\* the longest text of a query or of an event field
MaxText == 2
\* the most events the store holds in the range of one find_events call
MaxFound == 1
\* the longest fields list handed to find_events
MaxFields == 2
\* the most calendars the store holds
MaxCalendars == 2
\* the event identifiers the store hands out
MaxIds == 1
\* the update_event calls made on one store
MaxUpdates == 1

Times == 0 .. MaxTime
Durations == 0 .. MaxDuration

\* the lists of exactly k elements of S
ListsOf(S, k) == [1 .. k -> S]

\* the elements of a list
Range(xs) == {xs[i] : i \in 1 .. Len(xs)}

\* ------------------------------------------------------------------ state
VARIABLES
    op,             \* the call that has just completed, or "idle"
    intervals,      \* _merge_intervals: its argument
    intervals_after, \* _merge_intervals: the caller's list once the call is over
    merged,         \* _merge_intervals: the list it returned
    window_start,   \* _find_gaps: arguments
    window_end,
    busy,
    busy_after,     \* _find_gaps: the caller's busy list once the call is over
    min_duration,
    slots,          \* _find_gaps: the list of TimeSlot it returned
    ek_events,      \* find_free_time: what eventsMatchingPredicate_ returned
    start,          \* find_free_time: arguments
    end,
    duration,
    result,         \* find_free_time: the list of TimeSlot it returned
    outcome,        \* find_free_time: "returned", or the exception it raised
    busy_intervals, \* find_free_time: the list handed to _merge_intervals (line 66)
    provider_error, \* find_free_time: what the fetch raised, or "none"
    fetches,        \* find_free_time: calls of eventsMatchingPredicate_ it made
    init_pc,        \* CalendarStore(): where __init__ / _request_access stands
    callback_pc,    \* the access completion callback: where it stands
    granted,        \* the callback's arguments, once it is invoked
    error,
    granted_flag,   \* _request_access: the lists the callback appends to
    error_holder,
    done,           \* _request_access: the threading.Event, set or not
    polls,          \* _request_access: run-loop turns taken, counted to MaxPolls
    raised_msg,     \* the message of the CalendarAccessDeniedError raised
    store_events,   \* find_events: what eventsMatchingPredicate_ would return
    query,          \* find_events: arguments
    fields_given,   \*     FALSE for fields=None
    fields,
    case_sensitive,
    matches,        \* find_events: the list of Event it returned
    search_outcome, \* find_events: "returned", or the exception it raised
    store_queried,  \* find_events: whether eventsMatchingPredicate_ was called
    ek_calendars,   \* list_calendars: what calendarsForEntityType_ returned
    type_given,     \* list_calendars: arguments; FALSE for type=None
    type,
    source,         \*     NoText for source=None
    calendars,      \* list_calendars: the list of Calendar it returned
    list_outcome,   \* list_calendars: "returned", or the exception it raised
    stored_events,  \* the events the EKEventStore holds, kept from call to call
    ids_issued,     \* the event identifiers the store has handed out: 1 .. ids_issued
    updates_made,   \* the update_event calls made so far
    deleted_events, \* history: the events whose delete_event call has returned
    events_before,  \* add/update/delete_event: the store content as the call began
    store_calendars, \* add_event: the titles of the calendars the store holds
    store_default, \* add_event: the store's defaultCalendarForNewEvents()
    event_id_arg,       \* update/delete_event: arguments
    call_args,      \*     the keyword arguments, as a record
    crud_outcome,   \* "returned", or the exception raised
    crud_message,   \*     and what its message tells
    setters_called, \* the attributes of the stored event the call has set
    saved,          \* whether saveEvent_span_error_ was called
    removed,        \* whether removeEvent_span_error_ was called
    ek_event_after  \* the EKEvent the call worked on, as it left it; or none

mergeVars == <<intervals, intervals_after, merged>>
gapVars == <<window_start, window_end, busy, busy_after, min_duration, slots>>
freeVars ==
    <<ek_events, start, end, duration, result, outcome, busy_intervals,
      provider_error, fetches>>
accessVars ==
    <<init_pc, callback_pc, granted, error, granted_flag, error_holder, done,
      polls, raised_msg>>
searchVars ==
    <<store_events, query, fields_given, fields, case_sensitive, matches,
      search_outcome, store_queried>>
listVars ==
    <<ek_calendars, type_given, type, source, calendars, list_outcome>>
storeVars == <<stored_events, ids_issued, updates_made, deleted_events>>
crudVars ==
    <<events_before, store_calendars, store_default, event_id_arg, call_args,
      crud_outcome, crud_message, setters_called, saved, removed,
      ek_event_after>>
vars ==
    <<op, mergeVars, gapVars, freeVars, accessVars, searchVars, listVars,
      storeVars, crudVars>>

\* ------------------------------------------------ python built-ins used
Max(a, b) == IF b > a THEN b ELSE a
Min(a, b) == IF b < a THEN b ELSE a

\* sorted(intervals, key=lambda x: x[0]): a stable sort on the start alone.
RECURSIVE InsertByStart(_, _)
InsertByStart(sorted, x) ==
    IF sorted = <<>> THEN <<x>>
    ELSE IF sorted[Len(sorted)][1] <= x[1] THEN Append(sorted, x)
    ELSE Append(InsertByStart(SubSeq(sorted, 1, Len(sorted) - 1), x),
                sorted[Len(sorted)])

RECURSIVE sorted_intervals(_)
sorted_intervals(xs) ==
    IF xs = <<>> THEN <<>>
    ELSE InsertByStart(sorted_intervals(SubSeq(xs, 1, Len(xs) - 1)), xs[Len(xs)])

\* ------------------------------------------------------ _merge_intervals
\* a slip: '<' for '<=', so touching intervals are not coalesced
Touches_Strict(current_start, last_end) == current_start < last_end

\* a slip: intervals one instant apart are coalesced as if they touched
Touches_WithinOne(current_start, last_end) == current_start <= last_end + 1

\* availability.py:82  if current_start <= last_end
Touches(current_start, last_end) == current_start <= last_end

\* a slip: the later interval's end overwrites the accumulator's, without max
Extend_NoMax(last, current) == <<last[1], current[2]>>

\* availability.py:83  merged[-1] = (last_start, max(last_end, current_end))
Extend(last, current) == <<last[1], Max(last[2], current[2])>>

\* availability.py:80-85  one pass over sorted_intervals[1:]
RECURSIVE MergeLoop(_, _)
MergeLoop(acc, rest) ==
    IF rest = <<>> THEN acc
    ELSE LET current == Head(rest)
             last == acc[Len(acc)]
         IN IF Touches(current[1], last[2])
            THEN MergeLoop([acc EXCEPT ![Len(acc)] = Extend(last, current)], Tail(rest))
            ELSE MergeLoop(Append(acc, current), Tail(rest))

\* a slip: intervals.sort(key=...) sorts the caller's list in place
intervals_sorted_in_place(xs) == sorted_intervals(xs)

\* availability.py:77  sorted() builds a new list and lines 79-85 write to
\* merged alone: the caller's list is what it was
intervals_after_call(xs) == xs

merge_intervals(xs) ==
    IF xs = <<>> THEN <<>>
    ELSE LET s == sorted_intervals(xs)
         IN MergeLoop(<<s[1]>>, Tail(s))

\* ------------------------------------------------------------ _find_gaps
TimeSlot(s, e) == [start |-> s, end |-> e]

\* a slip: '>=' for '>', so a busy interval starting at the cursor leaves a gap
GapBefore_OrEqual(busy_start, cursor) == busy_start >= cursor

\* availability.py:101  if busy_start > cursor
GapBefore(busy_start, cursor) == busy_start > cursor

\* a slip: the minimum-duration test left out
LongEnough_Always(gap, d) == TRUE

\* a slip: '>' for '>=', so a gap of exactly min_duration is not emitted
LongEnough_Strict(gap, d) == gap > d

\* availability.py:103, 110  if gap >= min_duration
LongEnough(gap, d) == gap >= d

\* a slip: the cursor is not moved past the busy interval
Advance_Stale(cursor, busy_end) == cursor

\* a slip: the cursor is set to the end of the busy interval, without max
Advance_NoMax(cursor, busy_end) == busy_end

\* availability.py:105  cursor = max(cursor, busy_end)
Advance(cursor, busy_end) == Max(cursor, busy_end)

\* availability.py:100-105  the scan; returns the cursor and the slots so far
RECURSIVE GapLoop(_, _, _, _)
GapLoop(cursor, acc, rest, d) ==
    IF rest = <<>> THEN [cursor |-> cursor, slots |-> acc]
    ELSE LET busy_start == Head(rest)[1]
             busy_end == Head(rest)[2]
             acc2 == IF GapBefore(busy_start, cursor)
                        /\ LongEnough(busy_start - cursor, d)
                     THEN Append(acc, TimeSlot(cursor, busy_start))
                     ELSE acc
         IN GapLoop(Advance(cursor, busy_end), acc2, Tail(rest), d)

\* availability.py:108-111  the trailing gap
TrailingGap(cursor, acc, w_end, d) ==
    IF w_end > cursor /\ LongEnough(w_end - cursor, d)
    THEN Append(acc, TimeSlot(cursor, w_end))
    ELSE acc

\* availability.py:100  the loop reads busy and writes to slots alone: the
\* caller's list is what it was
busy_after_call(b) == b

find_gaps(w_start, w_end, b, d) ==
    LET scan == GapLoop(w_start, <<>>, b, d)
    IN TrailingGap(scan.cursor, scan.slots, w_end, d)

\* --------------------------------------------------------- find_free_time
\* Python's None; an NSDate is the one-element tuple of its instant.
None == <<>>

\* types.py:10-15  EventAvailability
BUSY == 0
FREE == 1
TENTATIVE == 2
UNAVAILABLE == 3
NOT_SUPPORTED == -1
Availabilities == {NOT_SUPPORTED, BUSY, FREE, TENTATIVE, UNAVAILABLE}

\* _convert.py:26-31  an NSDate becomes a UTC-aware datetime, None stays None
nsdate_to_datetime(nsdate) ==
    IF nsdate = None THEN None ELSE <<nsdate[1], TRUE>>

\* a datetime is <<instant, tzinfo is set>>
Instant(dt) == dt[1]
Aware(dt) == dt[2]

\* datetime.replace(tzinfo=None): the same wall-clock reading, now naive. The
\* reading of a UTC-aware datetime is its instant, as datetime_to_nsdate
\* (_convert.py:38-40) reads a naive datetime as UTC.
replace_tzinfo_none(dt) == <<Instant(dt), FALSE>>

\* max(a, b) and min(a, b) on datetimes of one awareness: a unless b is beyond it
DtMax(a, b) == IF Instant(b) > Instant(a) THEN b ELSE a
DtMin(a, b) == IF Instant(b) < Instant(a) THEN b ELSE a

\* a slip: tentative events are skipped like free ones
IsFree_OrTentative(ek_event) == ek_event.availability \in {FREE, TENTATIVE}

\* availability.py:43  if ek_event.availability() == EventAvailability.FREE.value
IsFree(ek_event) == ek_event.availability = FREE

\* availability.py:52-56
ClampStart(ev_start, w_start) ==
    IF Aware(w_start) THEN DtMax(ev_start, w_start)
    ELSE DtMax(replace_tzinfo_none(ev_start), w_start)

\* a slip: the end of the span is left where the event ends
ClampEnd_Unclamped(ev_end, w_end) ==
    IF Aware(w_end) THEN ev_end ELSE replace_tzinfo_none(ev_end)

\* availability.py:57-61
ClampEnd(ev_end, w_end) ==
    IF Aware(w_end) THEN DtMin(ev_end, w_end)
    ELSE DtMin(replace_tzinfo_none(ev_end), w_end)

\* a slip: the clamped span is kept without the start < end test
KeepsSpan_Always(ev_start, ev_end) == TRUE

\* availability.py:63  ev_start < ev_end
KeepsSpan(ev_start, ev_end) == Instant(ev_start) < Instant(ev_end)

\* availability.py:41-64  the loop over the fetched events. Comparing a naive
\* with an aware datetime raises TypeError (line 63).
RECURSIVE BusyLoop(_, _, _, _)
BusyLoop(events, w_start, w_end, acc) ==
    IF events = <<>> THEN [raised |-> FALSE, busy_intervals |-> acc]
    ELSE LET ek_event == Head(events)
             ev_start == nsdate_to_datetime(ek_event.startDate)
             ev_end == nsdate_to_datetime(ek_event.endDate)
         IN IF IsFree(ek_event) THEN BusyLoop(Tail(events), w_start, w_end, acc)
            ELSE IF ev_start = None \/ ev_end = None
            THEN BusyLoop(Tail(events), w_start, w_end, acc)
            ELSE LET cs == ClampStart(ev_start, w_start)
                     ce == ClampEnd(ev_end, w_end)
                 IN IF Aware(cs) # Aware(ce)
                    THEN [raised |-> TRUE, busy_intervals |-> acc]
                    ELSE IF KeepsSpan(cs, ce)
                    THEN BusyLoop(Tail(events), w_start, w_end,
                                  Append(acc, <<Instant(cs), Instant(ce)>>))
                    ELSE BusyLoop(Tail(events), w_start, w_end, acc)

\* availability.py:33-67. With no interval kept, _find_gaps compares window_end
\* with the cursor (line 108), which raises TypeError on mixed awareness.
find_free_time(events, w_start, w_end, d) ==
    LET loop == BusyLoop(events, w_start, w_end, <<>>)
    IN IF loop.raised \/ Aware(w_start) # Aware(w_end)
       THEN [outcome |-> "TypeError", slots |-> <<>>]
       ELSE [outcome |-> "returned",
             slots |-> find_gaps(Instant(w_start), Instant(w_end),
                                 merge_intervals(loop.busy_intervals), d)]

\* a slip: the failure is caught and answered as if no event had been fetched
fetch_failed_suppressed(exc, w_start, w_end, d) ==
    [outcome |-> "returned",
     slots |-> find_gaps(Instant(w_start), Instant(w_end), <<>>, d),
     fetches |-> 1]

\* availability.py:33-38  eventsMatchingPredicate_ raises: no try surrounds the
\* fetch, so the call ends with that exception after the one fetch
fetch_failed(exc, w_start, w_end, d) ==
    [outcome |-> exc, slots |-> <<>>, fetches |-> 1]

\* ------------------------------------------- CalendarStore._request_access
\* the error argument of the callback when there is no error (None)
Nil == "nil"

\* a slip: the event is not looked at, the loop is never left
LoopExits_Never(done_set) == FALSE

\* a slip: the loop is left without waiting for the event
LoopExits_Always(done_set) == TRUE

\* store.py:55  while not done.is_set(): the loop is left once done is set
LoopExits(done_set) == done_set

\* a slip: only a missing flag counts as a denial
AccessDenied_MissingOnly(flag) == flag = <<>>

\* store.py:60  if not granted_flag or not granted_flag[0]
AccessDenied(flag) == flag = <<>> \/ ~flag[1]

\* store.py:61-63  "Calendar access denied", then ": {error}" if one was recorded
DeniedMessage(holder) ==
    IF holder # <<>> THEN <<"Calendar access denied", holder[1]>>
    ELSE <<"Calendar access denied">>

\* ------------------------------------------------------------ find_events
\* A text is a sequence of characters, each a letter in one case. NoText is
\* an attribute that is not set (nil in the store, None in an Event).
NoText == <<"nil">>

\* str.lower()
LowerChar(c) == IF c = "A" THEN "a" ELSE c
lower(text) == [i \in 1 .. Len(text) |-> LowerChar(text[i])]

\* the operator in on str: needle occurs in hay as a substring
Contains(needle, hay) ==
    \E k \in 0 .. Len(hay) - Len(needle) :
        SubSeq(hay, k + 1, k + Len(needle)) = needle

\* events.py:15-33  the names _FIELD_EXTRACTORS maps, in its order
FIELD_EXTRACTORS ==
    <<"title", "location", "notes", "url", "calendar", "organizer_name",
      "organizer_email", "attendee_name", "attendee_email">>

\* events.py:16-33  the texts an extractor yields: an attribute that is not
\* set, or empty, yields none. The events modelled have a title and a
\* location; their other attributes are not set.
extract(ek_event, field_name) ==
    IF field_name \in {"title", "location"}
    THEN IF ek_event[field_name] \in {NoText, <<>>} THEN <<>>
         ELSE <<ek_event[field_name]>>
    ELSE <<>>

\* events.py:76  if query_lower in value.lower()
ValueMatches(query_lower, value) == Contains(query_lower, lower(value))

\* events.py:62-78
ek_event_matches(ek_event, query_lower, field_names) ==
    \E i \in 1 .. Len(field_names) :
        /\ field_names[i] \in Range(FIELD_EXTRACTORS)
        /\ LET values == extract(ek_event, field_names[i])
           IN \E j \in 1 .. Len(values) : ValueMatches(query_lower, values[j])

\* _convert.py:237, 243  title is "" and location is None when not set or empty
ek_event_to_event(ek_event) ==
    [title |-> IF ek_event.title \in {NoText, <<>>} THEN <<>>
               ELSE ek_event.title,
     location |-> IF ek_event.location \in {NoText, <<>>} THEN NoText
                  ELSE ek_event.location]

\* events.py:141  query if case_sensitive else query.lower()
query_normalized(q, cs) == IF cs THEN q ELSE lower(q)

\* a slip: the field names are checked only after the store has been queried
find_events_checked_late(events, q, given, names, cs) ==
    IF given /\ Range(names) \ Range(FIELD_EXTRACTORS) # {}
    THEN [outcome |-> "ValueError", matches |-> <<>>, queried |-> TRUE]
    ELSE [outcome |-> "returned",
          matches |-> [i \in 1 .. Len(SelectSeq(events, LAMBDA ev :
                           ek_event_matches(ev, query_normalized(q, cs),
                               IF given THEN names ELSE FIELD_EXTRACTORS))) |->
                       ek_event_to_event(SelectSeq(events, LAMBDA ev :
                           ek_event_matches(ev, query_normalized(q, cs),
                               IF given THEN names ELSE FIELD_EXTRACTORS))[i])],
          queried |-> TRUE]

\* events.py:98-146
find_events(events, q, given, names, cs) ==
    IF given /\ Range(names) \ Range(FIELD_EXTRACTORS) # {}
    THEN [outcome |-> "ValueError", matches |-> <<>>, queried |-> FALSE]
    ELSE LET search_fields == IF given THEN names ELSE FIELD_EXTRACTORS
             hits == SelectSeq(events,
                 LAMBDA ev :
                     ek_event_matches(ev, query_normalized(q, cs), search_fields))
         IN [outcome |-> "returned",
             matches |-> [i \in 1 .. Len(hits) |-> ek_event_to_event(hits[i])],
             queried |-> TRUE]

\* ------------------------------------- add_event, update_event, delete_event
\* the default of location, notes and url in update_event: the argument was
\* omitted (the Ellipsis object)
Ellipsis == <<"...">>

\* _convert.py:34-40  datetime_to_nsdate: a naive datetime is read as UTC
datetime_to_nsdate(dt) == <<Instant(dt)>>

\* a slip: the identifier is not compared, any event of the store is taken
eventWithIdentifier_Any(events, event_id) == events

\* events.py:266, 318  ek_store.eventWithIdentifier_(event_id): the events of
\* that identifier the store holds, none (None) or one
eventWithIdentifier(events, event_id) ==
    SelectSeq(events, LAMBDA ev : ev.eventIdentifier = event_id)

\* events.py:334-340  _resolve_span raises ValueError
SpanRejected(span) == span \notin {"this", "future"}

\* a slip: a recurring event is updated or deleted without occurrence_date
NeedsOccurrence_Never(ek_event, occurrence_date) == FALSE

\* events.py:270, 322  if ek_event.hasRecurrenceRules() and occurrence_date is None
NeedsOccurrence(ek_event, occurrence_date) ==
    ek_event.hasRecurrenceRules /\ occurrence_date = None

\* events.py:278-279
SetTitle(ek_event, title) ==
    IF title # NoText THEN [ek_event EXCEPT !.title = title] ELSE ek_event

\* events.py:280-281
SetStartDate(ek_event, start_arg) ==
    IF start_arg # None
    THEN [ek_event EXCEPT !.startDate = datetime_to_nsdate(start_arg)]
    ELSE ek_event

\* events.py:282-283
SetEndDate(ek_event, end_arg) ==
    IF end_arg # None
    THEN [ek_event EXCEPT !.endDate = datetime_to_nsdate(end_arg)]
    ELSE ek_event

\* events.py:284-285  is_all_day is None, or <<flag>>
SetAllDay(ek_event, is_all_day) ==
    IF is_all_day # None THEN [ek_event EXCEPT !.allDay = is_all_day[1]]
    ELSE ek_event

\* a slip: None leaves the location as it is, as it does for the title
SetLocation_NoneLeaves(ek_event, location) ==
    IF location \notin {Ellipsis, NoText}
    THEN [ek_event EXCEPT !.location = location]
    ELSE ek_event

\* events.py:286-287  if location is not ...
SetLocation(ek_event, location) ==
    IF location # Ellipsis THEN [ek_event EXCEPT !.location = location]
    ELSE ek_event

\* events.py:288-289
SetNotes(ek_event, notes) ==
    IF notes # Ellipsis THEN [ek_event EXCEPT !.notes = notes] ELSE ek_event

\* events.py:290-293  NSURL.URLWithString_(url) if url else None
SetURL(ek_event, url) ==
    IF url # Ellipsis
    THEN [ek_event EXCEPT !.URL = IF url \in {NoText, <<>>} THEN NoText ELSE url]
    ELSE ek_event

\* events.py:278-293  the setters update_event calls, by the attribute they set
SettersCalled(args) ==
    {n \in {"title", "startDate", "endDate", "allDay", "location", "notes", "URL"} :
        CASE n = "title" -> args.title # NoText
          [] n = "startDate" -> args.start # None
          [] n = "endDate" -> args.end # None
          [] n = "allDay" -> args.is_all_day # None
          [] n = "location" -> args.location # Ellipsis
          [] n = "notes" -> args.notes # Ellipsis
          [] n = "URL" -> args.url # Ellipsis}

\* the store content with the event of ek_event's identifier replaced by it
Saved(events, ek_event) ==
    [i \in 1 .. Len(events) |->
        IF events[i].eventIdentifier = ek_event.eventIdentifier THEN ek_event
        ELSE events[i]]

\* a slip: the span is resolved where it is used, after the setters
update_event_span_late(events, event_id, args, save_ok) ==
    LET found == eventWithIdentifier(events, event_id)
        quiet == [events |-> events, setters |-> {}, saved |-> FALSE,
                  removed |-> FALSE, ek_event |-> <<>>]
    IN IF found = <<>>
       THEN [outcome |-> "ValueError", message |-> "not found"] @@ quiet
       ELSE IF NeedsOccurrence(found[1], args.occurrence_date)
       THEN [outcome |-> "ValueError", message |-> "recurring event"] @@ quiet
       ELSE LET ek_event ==
                   SetURL(SetNotes(SetLocation(SetAllDay(SetEndDate(
                       SetStartDate(SetTitle(found[1], args.title), args.start),
                       args.end), args.is_all_day), args.location), args.notes),
                       args.url)
            IN IF SpanRejected(args.span)
               THEN [outcome |-> "ValueError", message |-> "span",
                     events |-> events,
                     setters |-> SettersCalled(args), saved |-> FALSE,
                     removed |-> FALSE, ek_event |-> <<ek_event>>]
               ELSE IF save_ok
               THEN [outcome |-> "returned", message |-> "",
                     events |-> Saved(events, ek_event),
                     setters |-> SettersCalled(args), saved |-> TRUE,
                     removed |-> FALSE, ek_event |-> <<ek_event>>]
               ELSE [outcome |-> "RuntimeError", message |-> "Failed to update",
                     events |-> events,
                     setters |-> SettersCalled(args), saved |-> TRUE,
                     removed |-> FALSE, ek_event |-> <<ek_event>>]

\* events.py:236-299  save_ok: saveEvent_span_error_ reports no error
update_event(events, event_id, args, save_ok) ==
    LET found == eventWithIdentifier(events, event_id)
        quiet == [events |-> events, setters |-> {}, saved |-> FALSE,
                  removed |-> FALSE, ek_event |-> <<>>]
    IN IF found = <<>>
       THEN [outcome |-> "ValueError", message |-> "not found"] @@ quiet
       ELSE IF NeedsOccurrence(found[1], args.occurrence_date)
       THEN [outcome |-> "ValueError", message |-> "recurring event"] @@ quiet
       ELSE IF SpanRejected(args.span)
       THEN [outcome |-> "ValueError", message |-> "span"] @@ quiet
       ELSE LET ek_event ==
                   SetURL(SetNotes(SetLocation(SetAllDay(SetEndDate(
                       SetStartDate(SetTitle(found[1], args.title), args.start),
                       args.end), args.is_all_day), args.location), args.notes),
                       args.url)
            IN IF save_ok
               THEN [outcome |-> "returned", message |-> "",
                     events |-> Saved(events, ek_event),
                     setters |-> SettersCalled(args), saved |-> TRUE,
                     removed |-> FALSE, ek_event |-> <<ek_event>>]
               ELSE [outcome |-> "RuntimeError", message |-> "Failed to update",
                     events |-> events,
                     setters |-> SettersCalled(args), saved |-> TRUE,
                     removed |-> FALSE, ek_event |-> <<ek_event>>]

\* events.py:302-331  remove_ok: removeEvent_span_error_ reports no error;
\* gone: no occurrence of the event is left in the store afterwards, which is
\* so for every event that does not recur
delete_event(events, event_id, args, remove_ok, gone) ==
    LET found == eventWithIdentifier(events, event_id)
        quiet == [events |-> events, setters |-> {}, saved |-> FALSE,
                  removed |-> FALSE, ek_event |-> <<>>]
    IN IF found = <<>>
       THEN [outcome |-> "ValueError", message |-> "not found"] @@ quiet
       ELSE IF NeedsOccurrence(found[1], args.occurrence_date)
       THEN [outcome |-> "ValueError", message |-> "recurring event"] @@ quiet
       ELSE IF SpanRejected(args.span)
       THEN [outcome |-> "ValueError", message |-> "span"] @@ quiet
       ELSE IF remove_ok
       THEN [outcome |-> "returned", message |-> "",
             events |-> IF gone
                        THEN SelectSeq(events,
                                 LAMBDA ev : ev.eventIdentifier # event_id)
                        ELSE events,
             setters |-> {}, saved |-> FALSE, removed |-> TRUE,
             ek_event |-> <<>>]
       ELSE [outcome |-> "RuntimeError", message |-> "Failed to delete",
             events |-> events, setters |-> {}, saved |-> FALSE,
             removed |-> TRUE, ek_event |-> <<>>]

\* a slip: the calendar titles are compared as they are written
TitleIs_Exact(title, calendar_name) == title = calendar_name

\* events.py:190  str(cal.title()).lower() == calendar_name.lower()
TitleIs(title, calendar_name) == lower(title) = lower(calendar_name)

\* events.py:186-193  the first calendar of that name: none (None) or one
RECURSIVE FindCalendar(_, _)
FindCalendar(cals, calendar_name) ==
    IF cals = <<>> THEN <<>>
    ELSE IF TitleIs(Head(cals), calendar_name) THEN <<Head(cals)>>
    ELSE FindCalendar(Tail(cals), calendar_name)

\* events.py:147-233  cals: the titles of the calendars the store holds;
\* default_calendar: its defaultCalendarForNewEvents(); new_id: the identifier
\* the store gives the event when it saves it. No alarms are passed.
add_event(events, cals, default_calendar, args, save_ok, new_id) ==
    LET target == FindCalendar(cals, args.calendar_name)
        ek_event ==
            [eventIdentifier |-> new_id,
             title |-> args.title,
             startDate |-> datetime_to_nsdate(args.start),
             endDate |-> datetime_to_nsdate(args.end),
             allDay |-> args.is_all_day,
             calendar |-> IF args.calendar_name = NoText THEN default_calendar
                          ELSE IF target = <<>> THEN NoText ELSE target[1],
             location |-> args.location,
             notes |-> args.notes,
             URL |-> args.url,
             hasRecurrenceRules |-> args.recurrence]
    IN IF args.calendar_name # NoText /\ target = <<>>
       THEN [outcome |-> "ValueError", message |-> "not found",
             events |-> events, saved |-> FALSE, ek_event |-> <<>>]
       ELSE IF save_ok
       THEN [outcome |-> "returned", message |-> "",
             events |-> Append(events, ek_event), saved |-> TRUE,
             ek_event |-> <<ek_event>>]
       ELSE [outcome |-> "RuntimeError", message |-> "Failed to save",
             events |-> events, saved |-> TRUE, ek_event |-> <<>>]

\* --------------------------------------------------------- list_calendars
\* types.py:52-57  CalendarType (LOCAL alone is a TLA+ keyword)
CalendarType_LOCAL == 0
CALDAV == 1
EXCHANGE == 2
SUBSCRIPTION == 3
BIRTHDAY == 4
CalendarTypes == {CalendarType_LOCAL, CALDAV, EXCHANGE, SUBSCRIPTION, BIRTHDAY}

\* str.lower() on the type names a caller passes
lower_name(name) ==
    CASE name = "LOCAL" -> "local"
      [] name = "CalDAV" -> "caldav"
      [] OTHER -> name

\* calendars.py:10-16, 33  _TYPE_NAME_MAP.get(name): <<member>> for an entry,
\* None for no entry
TYPE_NAME_MAP(name) ==
    CASE name = "local" -> <<CalendarType_LOCAL>>
      [] name = "caldav" -> <<CALDAV>>
      [] name = "exchange" -> <<EXCHANGE>>
      [] name = "subscription" -> <<SUBSCRIPTION>>
      [] name = "birthday" -> <<BIRTHDAY>>
      [] OTHER -> None

\* _convert.py:43-77  type: a value CalendarType does not know becomes LOCAL;
\* source: the title of the source, None without a source
ek_calendar_to_calendar(ek_cal) ==
    [title |-> ek_cal.title,
     type |-> IF ek_cal.type \in CalendarTypes THEN ek_cal.type
              ELSE CalendarType_LOCAL,
     source |-> ek_cal.source]

\* calendars.py:42-44  the source filter lets the calendar through
SourceAccepts(src, cal) ==
    src = NoText
        \/ (cal.source # NoText /\ Contains(lower(src), lower(cal.source)))

\* calendars.py:29-47  the loop over the calendars of the store: the type name
\* is looked up when a calendar is at hand
RECURSIVE CalendarLoop(_, _, _, _, _)
CalendarLoop(ek_cals, given, name, src, acc) ==
    IF ek_cals = <<>> THEN [outcome |-> "returned", calendars |-> acc]
    ELSE LET cal == ek_calendar_to_calendar(Head(ek_cals))
             expected == TYPE_NAME_MAP(lower_name(name))
         IN IF given /\ expected = None
            THEN [outcome |-> "ValueError", calendars |-> <<>>]
            ELSE IF given /\ <<cal.type>> # expected
            THEN CalendarLoop(Tail(ek_cals), given, name, src, acc)
            ELSE IF ~SourceAccepts(src, cal)
            THEN CalendarLoop(Tail(ek_cals), given, name, src, acc)
            ELSE CalendarLoop(Tail(ek_cals), given, name, src, Append(acc, cal))

\* calendars.py:19-49
list_calendars(ek_cals, given, name, src) ==
    CalendarLoop(ek_cals, given, name, src, <<>>)

\* ----------------------------------------------------------- input sets
\* the type names a caller passes: the five, two of them in another case, and
\* two that are none of them
TypeNames ==
    {"local", "caldav", "exchange", "subscription", "birthday", "LOCAL",
     "CalDAV", "nonexistent", ""}
\* what the store holds: calendars of the five types or of one the library
\* does not know (5), with or without a source
EKCalendars ==
    [title : {<<"a">>, <<"A">>}, type : CalendarTypes \cup {5},
     source : {NoText, <<"a">>, <<"A">>}]

\* letters: one letter in both cases
Chars == {"a", "A"}
Texts == UNION {ListsOf(Chars, k) : k \in 0 .. MaxText}
\* what the store holds: events with a title and a location, set or not
SearchEvents == [title : Texts \cup {NoText}, location : Texts \cup {NoText}]
\* the names a caller passes: the nine fields, or a name that is none of them
FieldNames == Range(FIELD_EXTRACTORS) \cup {"nonexistent_field"}

\* the calendars of the store, by title: two titles that differ in case only
CalendarTitles == {<<"a">>, <<"A">>}
\* the calendar names a caller passes to add_event; NoText for calendar=None
CalendarNames == {NoText} \cup (Texts \ {<<>>})
\* the arguments of add_event: one title and one span, the optional texts
\* passed or not, with or without a recurrence rule
AddArgs ==
    [title : {<<"a">>}, start : {<<0, TRUE>>}, end : {<<1, TRUE>>},
     is_all_day : {FALSE}, calendar_name : CalendarNames,
     location : {NoText, <<"a">>}, notes : {NoText, <<"a">>},
     url : {NoText, <<"a">>}, recurrence : BOOLEAN]
\* the span names a caller passes: the two the library knows and another
Spans == {"this", "future", "all"}
\* the arguments of update_event: each either left at its default or given a
\* value that differs from what add_event stored
UpdateArgs ==
    [title : {NoText, <<"A">>}, start : {None, <<1, TRUE>>},
     end : {None, <<2, TRUE>>}, is_all_day : {None, <<TRUE>>, <<FALSE>>},
     location : {Ellipsis, NoText, <<"A">>}, notes : {Ellipsis, NoText, <<"A">>},
     url : {Ellipsis, NoText, <<>>, <<"A">>}, span : Spans,
     occurrence_date : {None, <<0, TRUE>>}]
\* the arguments of delete_event
DeleteArgs == [span : Spans, occurrence_date : {None, <<0, TRUE>>}]
\* the identifiers a caller passes: those issued so far or later, and 0, which
\* the store never issues
EventIds == 0 .. MaxIds

\* what the platform may hand to the callback as error
AccessErrors == {Nil, "EKErrorDomain", "NSCocoaErrorDomain"}

\* what the provider may raise: an Objective-C exception, or a Python one
ProviderErrors == {"objc.error", "RuntimeError"}

Pairs == Times \X Times
WellFormed == {p \in Pairs : p[1] < p[2]}

IsSortedByStart(b) == \A i \in 1 .. Len(b) - 1 : b[i][1] <= b[i + 1][1]

\* sorted by start, pairwise disjoint and non-touching: what _merge_intervals promises
IsMerged(b) ==
    /\ \A i \in 1 .. Len(b) : b[i][1] < b[i][2]
    /\ \A i \in 1 .. Len(b) - 1 : b[i][2] < b[i + 1][1]


\* What the store holds: an event ends no earlier than it starts; startDate()
\* or endDate() may be nil.
NSDates == {<<t>> : t \in Times}
EventDates ==
    {p \in NSDates \X NSDates : p[1][1] <= p[2][1]}
        \cup {<<None, <<0>>>>, <<<<0>>, None>>}
EKEvents ==
    {[startDate |-> p[1], endDate |-> p[2], availability |-> a] :
        p \in EventDates, a \in Availabilities}
Datetimes == Times \X BOOLEAN

\* ------------------------------------------------------------------ init
Init ==
    /\ op = "idle"
    /\ intervals = <<>>
    /\ intervals_after = <<>>
    /\ merged = <<>>
    /\ window_start = 0
    /\ window_end = 0
    /\ busy = <<>>
    /\ busy_after = <<>>
    /\ min_duration = 0
    /\ slots = <<>>
    /\ ek_events = <<>>
    /\ start = <<0, TRUE>>
    /\ end = <<0, TRUE>>
    /\ duration = 0
    /\ result = <<>>
    /\ outcome = "returned"
    /\ busy_intervals = <<>>
    /\ provider_error = "none"
    /\ fetches = 0
    /\ init_pc = "new"
    /\ callback_pc = "unregistered"
    /\ granted = FALSE
    /\ error = Nil
    /\ granted_flag = <<>>
    /\ error_holder = <<>>
    /\ done = FALSE
    /\ polls = 0
    /\ raised_msg = <<>>
    /\ store_events = <<>>
    /\ query = <<>>
    /\ fields_given = FALSE
    /\ fields = <<>>
    /\ case_sensitive = FALSE
    /\ matches = <<>>
    /\ search_outcome = "returned"
    /\ store_queried = FALSE
    /\ ek_calendars = <<>>
    /\ type_given = FALSE
    /\ type = ""
    /\ source = NoText
    /\ calendars = <<>>
    /\ list_outcome = "returned"
    /\ stored_events = <<>>
    /\ ids_issued = 0
    /\ updates_made = 0
    /\ deleted_events = {}
    /\ events_before = <<>>
    /\ store_calendars = <<>>
    /\ store_default = NoText
    /\ event_id_arg = 0
    /\ call_args = <<>>
    /\ crud_outcome = "returned"
    /\ crud_message = ""
    /\ setters_called = {}
    /\ saved = FALSE
    /\ removed = FALSE
    /\ ek_event_after = <<>>

\* --------------------------------------------------------------- actions
\* A direct call of _merge_intervals.
CallMergeIntervals ==
    /\ op = "idle"
    /\ \E k \in 0 .. MaxLen : \E xs \in ListsOf(Pairs, k) :
        /\ intervals' = xs
        /\ intervals_after' = intervals_after_call(xs)
        /\ merged' = merge_intervals(xs)
    /\ op' = "merge_intervals"
    /\ UNCHANGED <<gapVars, freeVars, accessVars, searchVars, listVars,
                 storeVars, crudVars>>

\* A direct call of _find_gaps.
CallFindGaps ==
    /\ op = "idle"
    /\ \E ws \in Times, we \in Times, d \in Durations :
       \E k \in 0 .. MaxLen : \E b \in ListsOf(WellFormed, k) :
        /\ IsSortedByStart(b)
        /\ window_start' = ws
        /\ window_end' = we
        /\ busy' = b
        /\ busy_after' = busy_after_call(b)
        /\ min_duration' = d
        /\ slots' = find_gaps(ws, we, b, d)
    /\ op' = "find_gaps"
    /\ UNCHANGED <<mergeVars, freeVars, accessVars, searchVars, listVars,
                 storeVars, crudVars>>

\* A call of find_free_time: the provider answers the fetch with ek_events.
CallFindFreeTime ==
    /\ op = "idle"
    /\ \E s \in Datetimes, e \in Datetimes, d \in Durations :
       \E k \in 0 .. MaxEvents : \E events \in ListsOf(EKEvents, k) :
        LET r == find_free_time(events, s, e, d)
        IN /\ ek_events' = events
           /\ start' = s
           /\ end' = e
           /\ duration' = d
           /\ result' = r.slots
           /\ outcome' = r.outcome
           /\ busy_intervals' = BusyLoop(events, s, e, <<>>).busy_intervals
    /\ provider_error' = "none"
    /\ fetches' = 1
    /\ op' = "find_free_time"
    /\ UNCHANGED <<mergeVars, gapVars, accessVars, searchVars, listVars,
                 storeVars, crudVars>>

\* A call of find_free_time whose fetch fails: eventsMatchingPredicate_ raises.
CallFindFreeTimeFetchFails ==
    /\ op = "idle"
    /\ \E s \in Datetimes, e \in Datetimes, d \in Durations :
       \E exc \in ProviderErrors :
        LET r == fetch_failed(exc, s, e, d)
        IN /\ start' = s
           /\ end' = e
           /\ duration' = d
           /\ result' = r.slots
           /\ outcome' = r.outcome
           /\ fetches' = r.fetches
           /\ provider_error' = exc
    /\ op' = "find_free_time_failed"
    /\ UNCHANGED <<ek_events, busy_intervals, mergeVars, gapVars, accessVars, searchVars, listVars,
                 storeVars, crudVars>>

\* The caller drops the result; the functions keep no state between calls.
\* What the event store holds stays.
Return ==
    /\ op # "idle"
    /\ op' = "idle"
    /\ intervals' = <<>>
    /\ intervals_after' = <<>>
    /\ merged' = <<>>
    /\ window_start' = 0
    /\ window_end' = 0
    /\ busy' = <<>>
    /\ busy_after' = <<>>
    /\ min_duration' = 0
    /\ slots' = <<>>
    /\ ek_events' = <<>>
    /\ start' = <<0, TRUE>>
    /\ end' = <<0, TRUE>>
    /\ duration' = 0
    /\ result' = <<>>
    /\ outcome' = "returned"
    /\ busy_intervals' = <<>>
    /\ provider_error' = "none"
    /\ fetches' = 0
    /\ store_events' = <<>>
    /\ query' = <<>>
    /\ fields_given' = FALSE
    /\ fields' = <<>>
    /\ case_sensitive' = FALSE
    /\ matches' = <<>>
    /\ search_outcome' = "returned"
    /\ store_queried' = FALSE
    /\ ek_calendars' = <<>>
    /\ type_given' = FALSE
    /\ type' = ""
    /\ source' = NoText
    /\ calendars' = <<>>
    /\ list_outcome' = "returned"
    /\ events_before' = <<>>
    /\ store_calendars' = <<>>
    /\ store_default' = NoText
    /\ event_id_arg' = 0
    /\ call_args' = <<>>
    /\ crud_outcome' = "returned"
    /\ crud_message' = ""
    /\ setters_called' = {}
    /\ saved' = FALSE
    /\ removed' = FALSE
    /\ ek_event_after' = <<>>
    /\ deleted_events' =
        IF op = "delete_event" /\ crud_outcome = "returned"
        THEN deleted_events
             \cup Range(eventWithIdentifier(events_before, event_id_arg))
        ELSE deleted_events
    /\ UNCHANGED <<stored_events, ids_issued, updates_made>>
    /\ UNCHANGED accessVars

\* store.py:38-53  CalendarStore(): the store is allocated, the two lists and
\* the event are made and the access request is handed to the platform with
\* the callback; then __init__ polls.
RequestAccess ==
    /\ init_pc = "new"
    /\ granted_flag' = <<>>
    /\ error_holder' = <<>>
    /\ done' = FALSE
    /\ callback_pc' = "pending"
    /\ init_pc' = "polling"
    /\ UNCHANGED <<op, mergeVars, gapVars, freeVars, searchVars, listVars,
                   storeVars, crudVars, granted, error, polls,
                   raised_msg>>

\* store.py:47-48  the platform invokes the callback, on a thread of its
\* choosing: granted_flag.append(granted)
CallbackRecordsGranted ==
    /\ callback_pc = "pending"
    /\ \E g \in BOOLEAN, e \in AccessErrors :
        /\ granted' = g
        /\ error' = e
        /\ granted_flag' = Append(granted_flag, g)
    /\ callback_pc' = "granted_recorded"
    /\ UNCHANGED <<op, mergeVars, gapVars, freeVars, searchVars, listVars,
                   storeVars, crudVars, init_pc, error_holder,
                   done, polls, raised_msg>>

\* store.py:49-50  if error is not None: error_holder.append(error)
CallbackRecordsError ==
    /\ callback_pc = "granted_recorded"
    /\ error_holder' =
        IF error # Nil THEN Append(error_holder, error) ELSE error_holder
    /\ callback_pc' = "error_recorded"
    /\ UNCHANGED <<op, mergeVars, gapVars, freeVars, searchVars, listVars,
                   storeVars, crudVars, init_pc, granted, error,
                   granted_flag, done, polls, raised_msg>>

\* store.py:51  done.set()
CallbackSetsDone ==
    /\ callback_pc = "error_recorded"
    /\ done' = TRUE
    /\ callback_pc' = "finished"
    /\ UNCHANGED <<op, mergeVars, gapVars, freeVars, searchVars, listVars,
                   storeVars, crudVars, init_pc, granted, error,
                   granted_flag, error_holder, polls, raised_msg>>

\* store.py:55-58  done is not set: the run loop is turned for 0.05 s
Poll ==
    /\ init_pc = "polling"
    /\ ~LoopExits(done)
    /\ polls' = Min(polls + 1, MaxPolls)
    /\ UNCHANGED <<op, mergeVars, gapVars, freeVars, searchVars, listVars,
                   storeVars, crudVars, init_pc, callback_pc,
                   granted, error, granted_flag, error_holder, done,
                   raised_msg>>

\* store.py:55  done is set: the loop is left
LeaveLoop ==
    /\ init_pc = "polling"
    /\ LoopExits(done)
    /\ init_pc' = "deciding"
    /\ UNCHANGED <<op, mergeVars, gapVars, freeVars, searchVars, listVars,
                   storeVars, crudVars, callback_pc, granted,
                   error, granted_flag, error_holder, done, polls, raised_msg>>

\* store.py:60-64  denial raises CalendarAccessDeniedError; otherwise __init__
\* returns and the caller holds the store
Decide ==
    /\ init_pc = "deciding"
    /\ IF AccessDenied(granted_flag)
       THEN /\ init_pc' = "CalendarAccessDeniedError"
            /\ raised_msg' = DeniedMessage(error_holder)
       ELSE /\ init_pc' = "returned"
            /\ UNCHANGED raised_msg
    /\ UNCHANGED <<op, mergeVars, gapVars, freeVars, searchVars, listVars,
                   storeVars, crudVars, callback_pc, granted,
                   error, granted_flag, error_holder, done, polls>>

\* A call of find_events (store.py:116-150 hands its arguments on to
\* events.py:98-146): the store holds store_events in the range asked for.
CallFindEvents ==
    /\ op = "idle"
    /\ \E k \in 0 .. MaxFound : \E events \in ListsOf(SearchEvents, k) :
       \E q \in Texts, cs \in BOOLEAN, given \in BOOLEAN :
       \E n \in 0 .. MaxFields : \E names \in ListsOf(FieldNames, n) :
        /\ given \/ names = <<>>
        /\ LET r == find_events(events, q, given, names, cs)
           IN /\ store_events' = events
              /\ query' = q
              /\ fields_given' = given
              /\ fields' = names
              /\ case_sensitive' = cs
              /\ matches' = r.matches
              /\ search_outcome' = r.outcome
              /\ store_queried' = r.queried
    /\ op' = "find_events"
    /\ UNCHANGED <<mergeVars, gapVars, freeVars, accessVars, listVars,
                 storeVars, crudVars>>

\* A call of list_calendars (store.py:73-87 hands its arguments on to
\* calendars.py:19-49): the store holds the calendars ek_cals.
CallListCalendars ==
    /\ op = "idle"
    /\ \E k \in 0 .. MaxCalendars : \E ek_cals \in ListsOf(EKCalendars, k) :
       \E given \in BOOLEAN, name \in TypeNames, src \in Texts \cup {NoText} :
        /\ given \/ name = ""
        /\ LET r == list_calendars(ek_cals, given, name, src)
           IN /\ ek_calendars' = ek_cals
              /\ type_given' = given
              /\ type' = name
              /\ source' = src
              /\ calendars' = r.calendars
              /\ list_outcome' = r.outcome
    /\ op' = "list_calendars"
    /\ UNCHANGED <<mergeVars, gapVars, freeVars, accessVars, searchVars,
                   storeVars, crudVars>>

\* A call of add_event (store.py:154-199 hands its arguments on to
\* events.py:147-233). The store holds at least one calendar, and one of them
\* is its default calendar.
CallAddEvent ==
    /\ op = "idle"
    /\ ids_issued < MaxIds
    /\ \E k \in 1 .. MaxCalendars : \E cals \in ListsOf(CalendarTitles, k) :
       \E dflt \in Range(cals), args \in AddArgs, save_ok \in BOOLEAN :
        LET r == add_event(stored_events, cals, dflt, args, save_ok,
                           ids_issued + 1)
        IN /\ events_before' = stored_events
           /\ store_calendars' = cals
           /\ store_default' = dflt
           /\ call_args' = args
           /\ stored_events' = r.events
           /\ ids_issued' = IF r.outcome = "returned" THEN ids_issued + 1
                             ELSE ids_issued
           /\ crud_outcome' = r.outcome
           /\ crud_message' = r.message
           /\ saved' = r.saved
           /\ ek_event_after' = r.ek_event
    /\ op' = "add_event"
    /\ UNCHANGED <<mergeVars, gapVars, freeVars, accessVars, searchVars,
                   listVars, updates_made, deleted_events, event_id_arg,
                   setters_called, removed>>

\* A call of update_event (store.py:201-246 hands its arguments on to
\* events.py:236-299).
CallUpdateEvent ==
    /\ op = "idle"
    /\ updates_made < MaxUpdates
    /\ \E id \in EventIds, args \in UpdateArgs, save_ok \in BOOLEAN :
        LET r == update_event(stored_events, id, args, save_ok)
        IN /\ events_before' = stored_events
           /\ event_id_arg' = id
           /\ call_args' = args
           /\ stored_events' = r.events
           /\ crud_outcome' = r.outcome
           /\ crud_message' = r.message
           /\ setters_called' = r.setters
           /\ saved' = r.saved
           /\ removed' = r.removed
           /\ ek_event_after' = r.ek_event
    /\ updates_made' = updates_made + 1
    /\ op' = "update_event"
    /\ UNCHANGED <<mergeVars, gapVars, freeVars, accessVars, searchVars,
                   listVars, ids_issued, deleted_events, store_calendars,
                   store_default>>

\* A call of delete_event (store.py:248-272 hands its arguments on to
\* events.py:302-331). Of an event that recurs, occurrences may be left in
\* the store after the removal; an event that does not recur is gone.
CallDeleteEvent ==
    /\ op = "idle"
    /\ \E id \in EventIds, args \in DeleteArgs, remove_ok \in BOOLEAN,
          gone \in BOOLEAN :
        LET found == eventWithIdentifier(stored_events, id)
            r == delete_event(stored_events, id, args, remove_ok, gone)
        IN /\ gone \/ (found # <<>> /\ found[1].hasRecurrenceRules)
           /\ events_before' = stored_events
           /\ event_id_arg' = id
           /\ call_args' = args
           /\ stored_events' = r.events
           /\ crud_outcome' = r.outcome
           /\ crud_message' = r.message
           /\ setters_called' = r.setters
           /\ saved' = r.saved
           /\ removed' = r.removed
           /\ ek_event_after' = r.ek_event
    /\ op' = "delete_event"
    /\ UNCHANGED <<mergeVars, gapVars, freeVars, accessVars, searchVars,
                   listVars, ids_issued, updates_made, deleted_events,
                   store_calendars, store_default>>

NextMerge == CallMergeIntervals \/ Return
SpecMerge == Init /\ [][NextMerge]_vars

NextGaps == CallFindGaps \/ Return
SpecGaps == Init /\ [][NextGaps]_vars

NextFreeTime == CallFindFreeTime \/ Return
SpecFreeTime == Init /\ [][NextFreeTime]_vars

\* both functions of the interval arithmetic, called directly
NextPure == CallMergeIntervals \/ CallFindGaps \/ Return
SpecPure == Init /\ [][NextPure]_vars

\* the construction of a CalendarStore
NextAccess ==
    \/ RequestAccess
    \/ CallbackRecordsGranted
    \/ CallbackRecordsError
    \/ CallbackSetsDone
    \/ Poll
    \/ LeaveLoop
    \/ Decide
SpecAccess == Init /\ [][NextAccess]_vars

\* The construction under scheduling: the constructing thread keeps running
\* (store.py:53-64), and the platform invokes the completion callback, which
\* then runs to its end (store.py:47-51). A poll is never required to happen.
FairAccess ==
    /\ WF_vars(RequestAccess)
    /\ WF_vars(CallbackRecordsGranted)
    /\ WF_vars(CallbackRecordsError)
    /\ WF_vars(CallbackSetsDone)
    /\ WF_vars(LeaveLoop)
    /\ WF_vars(Decide)
SpecAccessFair == Init /\ [][NextAccess]_vars /\ FairAccess

\* events added to, updated in and deleted from one store
NextEvents == CallAddEvent \/ CallUpdateEvent \/ CallDeleteEvent \/ Return
SpecEvents == Init /\ [][NextEvents]_vars

\* list_calendars called
NextCalendars == CallListCalendars \/ Return
SpecCalendars == Init /\ [][NextCalendars]_vars

\* find_events called
NextSearch == CallFindEvents \/ Return
SpecSearch == Init /\ [][NextSearch]_vars

\* find_free_time called while the provider fails
NextProvider == CallFindFreeTimeFetchFails \/ Return
SpecProvider == Init /\ [][NextProvider]_vars

\* ---------------------------------------------------- what the claims use
AllWellFormed(xs) == \A i \in 1 .. Len(xs) : xs[i][1] < xs[i][2]

\* the unit cell [t, t+1) lies in one of the half-open intervals of S
CoveredBy(S, t) == \E p \in S : p[1] <= t /\ t < p[2]
Covered(S) == {t \in 0 .. MaxTime : CoveredBy(S, t)}

\* the maximal sub-intervals of [ws, we] that no interval of S covers
FreeRuns(ws, we, S) ==
    {r \in (ws .. we) \X (ws .. we) :
        /\ r[1] < r[2]
        /\ \A t \in r[1] .. r[2] - 1 : ~CoveredBy(S, t)
        /\ r[1] = ws \/ CoveredBy(S, r[1] - 1)
        /\ r[2] = we \/ CoveredBy(S, r[2])}

SlotPairs(ss) == {<<ss[i].start, ss[i].end>> : i \in 1 .. Len(ss)}

\* ------------------------------------------------------- _merge_intervals
\* C1: for every list of intervals with start < end, in any order and with any
\* overlap, each adjacent pair (a, b) of the merged list has a.end < b.start:
\* the list is sorted by start, and no two entries overlap or touch.
C1_MergedDisjoint ==
    (op = "merge_intervals" /\ AllWellFormed(intervals)) => IsMerged(merged)

\* C1 witness: an unsorted input with a touching pair that leaves two entries
C1_Witness ==
    /\ op = "merge_intervals"
    /\ AllWellFormed(intervals)
    /\ ~IsSortedByStart(intervals)
    /\ \E i, j \in 1 .. Len(intervals) : intervals[i][2] = intervals[j][1]
    /\ Len(merged) = 2

\* C2: the time covered by the merged list is exactly the time covered by the
\* input list: nothing busy is lost, nothing outside the input is added.
C2_MergedCoverage ==
    (op = "merge_intervals" /\ AllWellFormed(intervals))
        => Covered(Range(merged)) = Covered(Range(intervals))

\* C2 witness: an interval nested strictly inside an earlier one was absorbed
C2_Witness ==
    /\ op = "merge_intervals"
    /\ AllWellFormed(intervals)
    /\ \E i, j \in 1 .. Len(intervals) :
        /\ intervals[i][1] < intervals[j][1]
        /\ intervals[j][2] < intervals[i][2]
    /\ Len(merged) < Len(intervals)

\* C8 (as claimed): an interval with start >= end handed to _merge_intervals is
\* skipped: the result is the result for the well-formed intervals alone, and
\* it holds no interval with start >= end.
C8_MalformedSkipped ==
    op = "merge_intervals" =>
        /\ AllWellFormed(merged)
        /\ merged = merge_intervals(SelectSeq(intervals, LAMBDA p : p[1] < p[2]))

\* ------------------------------------------------------------- _find_gaps
\* C3 (as claimed): every slot lies within [window_start, window_end], for every
\* window_start < window_end and every sorted, disjoint, non-touching busy list,
\* also when busy intervals start or end outside the window.
C3_SlotsInWindow ==
    (op = "find_gaps" /\ window_start < window_end /\ IsMerged(busy)) =>
        \A i \in 1 .. Len(slots) :
            window_start <= slots[i].start /\ slots[i].end <= window_end

\* C4: every slot is disjoint, as a half-open interval, from every interval of
\* the busy list, for every sorted, disjoint, non-touching busy list.
C4_SlotsAvoidBusy ==
    (op = "find_gaps" /\ IsMerged(busy)) =>
        \A i \in 1 .. Len(slots) : \A j \in 1 .. Len(busy) :
            slots[i].end <= busy[j][1] \/ busy[j][2] <= slots[i].start

\* C4 witness: slots on both sides of a busy interval inside the window
C4_Witness ==
    /\ op = "find_gaps"
    /\ IsMerged(busy)
    /\ Len(busy) = 2
    /\ \E i, k \in 1 .. Len(slots) :
        /\ slots[i].end = busy[1][1]
        /\ slots[k].start = busy[1][2]
        /\ slots[k].end = busy[2][1]

\* C5: every slot is at least min_duration long, for every window, merged busy
\* list and min_duration >= 0.
C5_SlotsLongEnough ==
    (op = "find_gaps" /\ IsMerged(busy)) =>
        \A i \in 1 .. Len(slots) : slots[i].end - slots[i].start >= min_duration

\* C5 witness: one gap was long enough and another was too short
C5_Witness ==
    /\ op = "find_gaps"
    /\ IsMerged(busy)
    /\ min_duration > 0
    /\ Len(slots) > 0
    /\ \E r \in FreeRuns(window_start, window_end, Range(busy)) :
        r[2] - r[1] < min_duration

\* C6 (as claimed): no qualifying gap is omitted: every maximal sub-interval of
\* the window that no busy interval covers and that is at least min_duration
\* long (exactly min_duration included) is in the result, as one slot.
C6_NoGapOmitted ==
    (op = "find_gaps" /\ window_start < window_end /\ IsMerged(busy)) =>
        \A r \in FreeRuns(window_start, window_end, Range(busy)) :
            r[2] - r[1] >= min_duration =>
                Cardinality({i \in 1 .. Len(slots) :
                    slots[i] = TimeSlot(r[1], r[2])}) = 1

\* --------------------------------------------------------- find_free_time
HasDates(ek_event) == ek_event.startDate # None /\ ek_event.endDate # None

\* the fetched events that count as busy, and the spans they occupy
BusyEvents(events) ==
    SelectSeq(events, LAMBDA ev : ev.availability # FREE /\ HasDates(ev))
BusySpans(events) ==
    {<<ev.startDate[1], ev.endDate[1]>> : ev \in Range(BusyEvents(events))}

\* those spans cut to the window, the empty and inverted ones dropped
ClampedSpans(events, w_start, w_end) ==
    LET evs == BusyEvents(events)
        cut == [i \in 1 .. Len(evs) |->
                    <<Max(evs[i].startDate[1], Instant(w_start)),
                      Min(evs[i].endDate[1], Instant(w_end))>>]
    IN SelectSeq(cut, LAMBDA p : p[1] < p[2])

\* C7: find_free_time returns, in ascending order, exactly the maximal spans
\* inside [start, end] that no fetched non-free event covers and that are at
\* least duration long; that list is _find_gaps of _merge_intervals of the
\* filtered, clamped event spans. (start and end are of one awareness, so that
\* [start, end] is a window at all.)
C7_FreeTimeIsMaximalGaps ==
    (op = "find_free_time" /\ Aware(start) = Aware(end)) =>
        /\ outcome = "returned"
        /\ \A i \in 1 .. Len(result) - 1 : result[i].start < result[i + 1].start
        /\ SlotPairs(result) =
            {r \in FreeRuns(Instant(start), Instant(end), BusySpans(ek_events)) :
                r[2] - r[1] >= duration}
        /\ result = find_gaps(Instant(start), Instant(end),
                              merge_intervals(ClampedSpans(ek_events, start, end)),
                              duration)

\* C7 witness: two busy events that touch or overlap, the first reaching out of
\* the window on the left, with free time left after them
C7_Witness ==
    /\ op = "find_free_time"
    /\ outcome = "returned"
    /\ duration > 0
    /\ Len(BusyEvents(ek_events)) = 2
    /\ ek_events[1].startDate[1] < Instant(start)
    /\ ek_events[1].endDate[1] > Instant(start)
    /\ ek_events[2].startDate[1] <= ek_events[1].endDate[1]
    /\ ek_events[2].endDate[1] > ek_events[1].endDate[1]
    /\ Len(result) = 1
    /\ result[1].start = ek_events[2].endDate[1]

\* C9 (as claimed): a call with a degenerate window, start >= end, is rejected
\* with an invalid-argument error instead of returning an empty list.
C9_DegenerateWindowRejected ==
    (/\ op = "find_free_time"
     /\ Aware(start) = Aware(end)
     /\ Instant(start) >= Instant(end)) => outcome = "ValueError"

\* C10: events marked FREE are ignored, and every other availability (busy,
\* tentative, unavailable, not supported) counts as busy: the call ends as it
\* would had the provider not returned the FREE events, and no returned slot
\* overlaps the span of an event that is not FREE.
C10_OnlyFreeIgnored ==
    op = "find_free_time" =>
        /\ find_free_time(SelectSeq(ek_events, LAMBDA ev : ev.availability # FREE),
                          start, end, duration)
            = [outcome |-> outcome, slots |-> result]
        /\ \A p \in BusySpans(ek_events) : \A i \in 1 .. Len(result) :
            p[1] < p[2] => (result[i].end <= p[1] \/ p[2] <= result[i].start)

\* C10 witness: a FREE event lies inside a returned slot, next to an event
\* that is neither FREE nor BUSY and bounds that slot
C10_Witness ==
    /\ op = "find_free_time"
    /\ outcome = "returned"
    /\ Len(ek_events) = 2
    /\ \E i, j \in 1 .. 2 :
        /\ ek_events[i].availability = FREE
        /\ HasDates(ek_events[i])
        /\ ek_events[i].startDate[1] < ek_events[i].endDate[1]
        /\ ek_events[j].availability \in {NOT_SUPPORTED, TENTATIVE, UNAVAILABLE}
        /\ HasDates(ek_events[j])
        /\ \E k \in 1 .. Len(result) :
            /\ result[k].start = ek_events[j].endDate[1]
            /\ result[k].start <= ek_events[i].startDate[1]
            /\ ek_events[i].endDate[1] <= result[k].end

\* C11: every non-free event span is clamped to the window and a clamped span
\* with start >= end is dropped: each interval handed to _merge_intervals has
\* start <= interval start < interval end <= end, and the list is the clamped
\* spans of the non-free events, in the order fetched.
C11_BusyIntervalsInWindow ==
    op = "find_free_time" =>
        /\ \A i \in 1 .. Len(busy_intervals) :
            /\ Instant(start) <= busy_intervals[i][1]
            /\ busy_intervals[i][1] < busy_intervals[i][2]
            /\ busy_intervals[i][2] <= Instant(end)
        /\ Aware(start) = Aware(end) =>
            busy_intervals = ClampedSpans(ek_events, start, end)

\* C11 witness: one event reaches out of the window on both sides and is cut
\* to the window; another lies after the window and is dropped
C11_Witness ==
    /\ op = "find_free_time"
    /\ outcome = "returned"
    /\ Len(BusyEvents(ek_events)) = 2
    /\ \E i, j \in 1 .. 2 :
        /\ ek_events[i].startDate[1] < Instant(start)
        /\ ek_events[i].endDate[1] > Instant(end)
        /\ ek_events[j].startDate[1] > Instant(end)
    /\ busy_intervals = << <<Instant(start), Instant(end)>> >>

\* C12: _merge_intervals is idempotent: merging its own result gives that
\* result again, for every input list, and an input that is already sorted,
\* disjoint and non-touching (a single interval included) comes back unchanged.
C12_MergeIdempotent ==
    op = "merge_intervals" =>
        /\ merge_intervals(merged) = merged
        /\ IsMerged(intervals) => merged = intervals

\* C12 witness: overlapping intervals were merged into two entries, which a
\* second merge has to leave alone
C12_Witness ==
    /\ op = "merge_intervals"
    /\ AllWellFormed(intervals)
    /\ Len(intervals) = 3
    /\ Len(merged) = 2
    /\ ~IsMerged(intervals)

\* the list xs read in the order p, a permutation of its positions
Permuted(xs, p) == [i \in 1 .. Len(xs) |-> xs[p[i]]]

\* C13: the result of _merge_intervals does not depend on the order of its
\* input: every permutation of a list of well-formed intervals merges to the
\* same list, also when several intervals share a start.
C13_MergeOrderIndependent ==
    (op = "merge_intervals" /\ AllWellFormed(intervals)) =>
        \A p \in Permutations(1 .. Len(intervals)) :
            merge_intervals(Permuted(intervals, p)) = merged

\* C13 witness: an unsorted input in which two intervals share a start and
\* end differently, the longer one first
C13_Witness ==
    /\ op = "merge_intervals"
    /\ AllWellFormed(intervals)
    /\ ~IsSortedByStart(intervals)
    /\ \E i, j \in 1 .. Len(intervals) :
        /\ i < j
        /\ intervals[i][1] = intervals[j][1]
        /\ intervals[i][2] > intervals[j][2]

\* the latest instant reached before busy interval j is looked at: the window
\* start, or the latest end of an earlier busy interval
SetMax(S) == CHOOSE x \in S : \A y \in S : y <= x
ReachedBefore(w_start, b, j) ==
    SetMax({w_start} \cup {b[i][2] : i \in 1 .. j - 1})

\* the stretches between what is reached and the next busy start, and the one
\* up to the window end; empty and inverted stretches included
Stretches(w_start, w_end, b) ==
    {<<ReachedBefore(w_start, b, j), b[j][1]>> : j \in 1 .. Len(b)}
        \cup {<<ReachedBefore(w_start, b, Len(b) + 1), w_end>>}

\* C14: every slot _find_gaps emits has start < end strictly, for every
\* min_duration >= 0; with min_duration zero every non-empty gap is emitted and
\* a gap of length zero (a busy interval starting where the last one ended or
\* at the window start, or the last one ending at the window end) is not.
C14_SlotsNonEmpty ==
    op = "find_gaps" =>
        /\ \A i \in 1 .. Len(slots) : slots[i].start < slots[i].end
        /\ min_duration = 0 =>
            SlotPairs(slots) =
                {g \in Stretches(window_start, window_end, busy) : g[1] < g[2]}

\* C14 witness: with min_duration zero, a busy interval starts at the window
\* start, the next starts where it ends, and a gap of length one is emitted
C14_Witness ==
    /\ op = "find_gaps"
    /\ min_duration = 0
    /\ Len(busy) = 2
    /\ busy[1][1] = window_start
    /\ busy[2][1] = busy[1][2]
    /\ slots = <<TimeSlot(busy[2][2], window_end)>>
    /\ window_end = busy[2][2] + 1

\* C15: with an empty busy list _find_gaps returns the one slot
\* (window_start, window_end) when window_end - window_start >= min_duration,
\* and the empty list otherwise (window_start < window_end, as its contract asks).
C15_EmptyBusy ==
    (op = "find_gaps" /\ busy = <<>> /\ window_start < window_end) =>
        slots = IF window_end - window_start >= min_duration
                THEN <<TimeSlot(window_start, window_end)>>
                ELSE <<>>

\* C15 witness: no busy interval, and the window is exactly min_duration long
C15_Witness ==
    /\ op = "find_gaps"
    /\ busy = <<>>
    /\ min_duration > 0
    /\ window_end - window_start = min_duration
    /\ Len(slots) = 1

\* C16 (as claimed): when the busy intervals cover the whole window, a single
\* interval (window_start, window_end) in particular, _find_gaps returns the
\* empty list, for every min_duration >= 0.
C16_FullyBusy ==
    (/\ op = "find_gaps"
     /\ window_start < window_end
     /\ IsMerged(busy)
     /\ \A t \in window_start .. window_end - 1 : CoveredBy(Range(busy), t))
        => slots = <<>>

C19_DeniedRaises ==
    /\ init_pc = "returned" => (callback_pc = "finished" /\ granted)
    /\ (init_pc \in {"returned", "CalendarAccessDeniedError"} /\ ~granted)
        => init_pc = "CalendarAccessDeniedError"

\* C19 witness: the callback reported a denial without an error, after the
\* constructor had polled, and the constructor raised
C19_Witness ==
    /\ init_pc = "CalendarAccessDeniedError"
    /\ callback_pc = "finished"
    /\ ~granted
    /\ error = Nil
    /\ polls > 0
    /\ raised_msg = <<"Calendar access denied">>

\* ------------------------------------------------------------ find_events
\* the texts of the searched fields of an event
SearchedValues(ek_event, given, names) ==
    {ek_event[f] : f \in {g \in {"title", "location"} :
                               ~given \/ g \in Range(names)}}
        \ {NoText, <<>>}

\* C20 (as claimed): with case_sensitive = True find_events returns an event
\* if and only if the query occurs, in exactly its letter case, as a substring
\* of a value of a searched field; with case_sensitive = False the comparison
\* ignores case.
C20_CaseSensitiveExact ==
    (op = "find_events" /\ search_outcome = "returned") =>
        matches =
            LET hits == SelectSeq(store_events,
                    LAMBDA ev :
                        \E v \in SearchedValues(ev, fields_given, fields) :
                            IF case_sensitive THEN Contains(query, v)
                            ELSE Contains(lower(query), lower(v)))
            IN [i \in 1 .. Len(hits) |-> ek_event_to_event(hits[i])]

\* C21: find_events called with a fields list holding any name outside the
\* nine searchable fields raises ValueError before the store is queried for
\* events, whatever the store holds and whatever the query is.
C21_UnknownFieldRejected ==
    (/\ op = "find_events"
     /\ fields_given
     /\ \E i \in 1 .. Len(fields) : fields[i] \notin Range(FIELD_EXTRACTORS))
        => /\ search_outcome = "ValueError"
           /\ ~store_queried
           /\ matches = <<>>

\* C21 witness: a valid name next to an unknown one, on a store holding an
\* event the query would have matched in the valid field
C21_Witness ==
    /\ op = "find_events"
    /\ fields = <<"title", "nonexistent_field">>
    /\ Len(store_events) = 1
    /\ store_events[1].title # NoText
    /\ query # <<>>
    /\ Contains(lower(query), lower(store_events[1].title))
    /\ search_outcome = "ValueError"

\* --------------------------------------------------------- list_calendars
\* C22 (as claimed): list_calendars called with a type name that is none of
\* local, caldav, exchange, subscription, birthday raises ValueError, whatever
\* calendars the store holds, also when it holds none.
C22_UnknownTypeRejected ==
    (/\ op = "list_calendars"
     /\ type_given
     /\ lower_name(type) \notin
            {"local", "caldav", "exchange", "subscription", "birthday"})
        => list_outcome = "ValueError"

\* ------------------------------------- add_event, update_event, delete_event
\* the event the call named, as the store held it when the call began
Named == eventWithIdentifier(events_before, event_id_arg)

\* C23: update_event and delete_event raise ValueError when the event they
\* name has recurrence rules and occurrence_date is omitted, whatever span and
\* the other arguments are.
C23_RecurringNeedsOccurrence ==
    (/\ op \in {"update_event", "delete_event"}
     /\ Named # <<>>
     /\ Named[1].hasRecurrenceRules
     /\ call_args.occurrence_date = None)
        => /\ crud_outcome = "ValueError"
           /\ crud_message = "recurring event"

\* C23 witness: a recurring event, no occurrence_date, a span the library does
\* not know and a new title: the call fails for the missing occurrence_date
C23_Witness ==
    /\ op = "update_event"
    /\ Named # <<>>
    /\ Named[1].hasRecurrenceRules
    /\ call_args.occurrence_date = None
    /\ call_args.span = "all"
    /\ call_args.title # NoText
    /\ crud_outcome = "ValueError"
    /\ crud_message = "recurring event"

\* the event the call named, as the store holds it after the call
NamedAfter == eventWithIdentifier(stored_events, event_id_arg)

\* C24: update_event changes only what the caller supplied: location, notes
\* and url keep their value when omitted and are cleared when None is passed;
\* title, start, end and is_all_day keep their value when None; every other
\* attribute of the stored event keeps its value.
C24_UpdateChangesOnlySupplied ==
    (op = "update_event" /\ crud_outcome = "returned") =>
        /\ Len(NamedAfter) = 1
        /\ Len(stored_events) = Len(events_before)
        /\ ek_event_after = NamedAfter
        /\ LET old == Named[1]
               new == NamedAfter[1]
           IN /\ new.title = IF call_args.title = NoText THEN old.title
                              ELSE call_args.title
              /\ new.startDate = IF call_args.start = None THEN old.startDate
                                  ELSE <<call_args.start[1]>>
              /\ new.endDate = IF call_args.end = None THEN old.endDate
                                ELSE <<call_args.end[1]>>
              /\ new.allDay = IF call_args.is_all_day = None THEN old.allDay
                               ELSE call_args.is_all_day[1]
              /\ new.location = IF call_args.location = Ellipsis
                                 THEN old.location ELSE call_args.location
              /\ new.notes = IF call_args.notes = Ellipsis THEN old.notes
                              ELSE call_args.notes
              /\ call_args.url = Ellipsis => new.URL = old.URL
              /\ call_args.url = NoText => new.URL = NoText
              /\ call_args.url \notin {Ellipsis, NoText, <<>>}
                    => new.URL = call_args.url
              /\ new.calendar = old.calendar
              /\ new.hasRecurrenceRules = old.hasRecurrenceRules
              /\ new.eventIdentifier = old.eventIdentifier

\* C24 witness: the title is left out, the location is cleared with None, the
\* notes are omitted and stay, and the url is replaced
C24_Witness ==
    /\ op = "update_event"
    /\ crud_outcome = "returned"
    /\ call_args.title = NoText
    /\ call_args.location = NoText
    /\ call_args.notes = Ellipsis
    /\ call_args.url = <<"A">>
    /\ Named[1].location = <<"a">>
    /\ Named[1].notes = <<"a">>
    /\ NamedAfter[1].location = NoText
    /\ NamedAfter[1].notes = <<"a">>
    /\ NamedAfter[1].title = Named[1].title

\* update_event or delete_event was called with an identifier the store did
\* not hold, and raised ValueError ('not found') without touching the store
UnknownIdRejected ==
    (op \in {"update_event", "delete_event"} /\ Named = <<>>)
        => /\ crud_outcome = "ValueError"
           /\ crud_message = "not found"
           /\ stored_events = events_before

\* C25 (as claimed): update_event and delete_event called with an event id the
\* store does not hold raise ValueError ('not found'); in particular, once
\* delete_event has returned for an event, updating or deleting that id raises
\* ValueError.
C25_DeletedIdRejected ==
    /\ UnknownIdRejected
    /\ (/\ op \in {"update_event", "delete_event"}
        /\ \E ev \in deleted_events : ev.eventIdentifier = event_id_arg)
            => crud_outcome = "ValueError"

\* C25 (amended): ... in particular, once delete_event has returned for an
\* event that does not recur, updating or deleting that id raises ValueError
\* ('not found'). Of a recurring event, occurrences may be left under the id.
C25_DeletedSingleEventRejected ==
    /\ UnknownIdRejected
    /\ (/\ op \in {"update_event", "delete_event"}
        /\ \E ev \in deleted_events :
            /\ ev.eventIdentifier = event_id_arg
            /\ ~ev.hasRecurrenceRules)
            => /\ crud_outcome = "ValueError"
               /\ crud_message = "not found"

\* C25 witness: an event that does not recur was deleted, and a later
\* update_event naming it, with a new title, raised ValueError
C25_Witness ==
    /\ op = "update_event"
    /\ event_id_arg = 1
    /\ \E ev \in deleted_events :
        ev.eventIdentifier = 1 /\ ~ev.hasRecurrenceRules
    /\ call_args.title # NoText
    /\ call_args.span = "this"
    /\ crud_outcome = "ValueError"
    /\ crud_message = "not found"

\* the calendar titles of the store that equal the name add_event was given,
\* compared case-insensitively
TitlesMatching ==
    {i \in 1 .. Len(store_calendars) :
        lower(store_calendars[i]) = lower(call_args.calendar_name)}

\* C26: add_event called with a calendar name that matches no calendar title,
\* compared case-insensitively, raises ValueError ('not found') and saves no
\* event to the store; a name that matches a title in another case is
\* accepted; with calendar omitted the event is placed in the store's default
\* calendar.
C26_UnknownCalendarRejected ==
    op = "add_event" =>
        /\ (call_args.calendar_name # NoText /\ TitlesMatching = {})
            => /\ crud_outcome = "ValueError"
               /\ crud_message = "not found"
               /\ ~saved
               /\ stored_events = events_before
        /\ (call_args.calendar_name # NoText /\ TitlesMatching # {})
            => crud_outcome # "ValueError"
        /\ (call_args.calendar_name = NoText /\ crud_outcome = "returned")
            => /\ ek_event_after[1].calendar = store_default
               /\ stored_events = Append(events_before, ek_event_after[1])

\* C26 witness: a store of two calendars was asked for a name neither has,
\* and add_event raised ValueError
C26_Witness ==
    /\ op = "add_event"
    /\ Len(store_calendars) = 2
    /\ call_args.calendar_name = <<"a", "A">>
    /\ crud_outcome = "ValueError"
    /\ crud_message = "not found"

\* the cursor of _find_gaps after the first k intervals of the busy list
CursorAfter(k) ==
    GapLoop(window_start, <<>>, SubSeq(busy, 1, k), min_duration).cursor

\* C27: on a busy list of well-formed intervals that is sorted by start, but
\* may still overlap or touch, _find_gaps returns what it returns on the
\* merged form of the list, and its cursor never decreases during the scan.
C27_SortedAsGoodAsMerged ==
    op = "find_gaps" =>
        /\ slots = find_gaps(window_start, window_end, merge_intervals(busy),
                             min_duration)
        /\ \A k \in 1 .. Len(busy) : CursorAfter(k - 1) <= CursorAfter(k)

\* C27 witness: the busy list held an interval lying inside the one before
\* it, so that its merged form is shorter, and a trailing slot was returned
C27_Witness ==
    /\ op = "find_gaps"
    /\ busy = <<<<0, 3>>, <<1, 2>>>>
    /\ merge_intervals(busy) = <<<<0, 3>>>>
    /\ window_start = 0
    /\ window_end = 4
    /\ min_duration = 1
    /\ slots = <<TimeSlot(3, 4)>>

\* C28: the callback records the granted flag and any error before it sets
\* done, and the constructor reads them only after it has seen done: whenever
\* the constructor decides or has decided, the callback has finished, the flag
\* and the error it was given are recorded, the decision follows the flag, and
\* a denial raised carries the error the callback supplied.
C28_DecidesOnWrittenFlag ==
    /\ init_pc \in {"deciding", "returned", "CalendarAccessDeniedError"}
        => /\ callback_pc = "finished"
           /\ granted_flag = <<granted>>
           /\ error # Nil => error_holder = <<error>>
    /\ init_pc = "returned" => granted
    /\ init_pc = "CalendarAccessDeniedError"
        => /\ ~granted
           /\ error # Nil => raised_msg = <<"Calendar access denied", error>>
    /\ done => (granted_flag # <<>> /\ callback_pc = "finished")

\* C28 witness: the loop polled while the callback was under way, the
\* callback refused access with an error, and the denial raised carries it
C28_Witness ==
    /\ init_pc = "CalendarAccessDeniedError"
    /\ polls >= 2
    /\ ~granted
    /\ error = "EKErrorDomain"
    /\ raised_msg = <<"Calendar access denied", "EKErrorDomain">>

\* the constructor has returned or raised CalendarAccessDeniedError
AccessDecided == init_pc \in {"returned", "CalendarAccessDeniedError"}

\* C29: once the platform invokes the completion callback, _request_access
\* leaves its polling loop and returns or raises CalendarAccessDeniedError;
\* while the callback has not set done the loop cannot be left and another
\* poll is always possible, however many were made: there is no timeout.
C29_AccessEventuallyDecided ==
    /\ (init_pc = "polling") ~> AccessDecided
    /\ []((init_pc = "polling" /\ ~done)
            => (ENABLED Poll /\ ~ENABLED LeaveLoop))
    /\ [](init_pc \in {"deciding", "returned", "CalendarAccessDeniedError"}
            => callback_pc = "finished")

\* C29 witness: the loop polled as often as the model counts before the
\* callback set done, and the constructor then returned
C29_Witness ==
    /\ init_pc = "returned"
    /\ polls = MaxPolls
    /\ done
    /\ granted

\* C30: whenever update_event or delete_event raises ValueError, for an
\* unknown event id, a recurring event without occurrence_date or a span
\* other than 'this' and 'future', no setter, no save and no remove has been
\* called, the store holds what it held before the call, and each of the
\* three causes does end in ValueError.
C30_ValueErrorLeavesEventAlone ==
    op \in {"update_event", "delete_event"} =>
        /\ crud_outcome = "ValueError"
            => /\ setters_called = {}
               /\ ~saved
               /\ ~removed
               /\ ek_event_after = <<>>
               /\ stored_events = events_before
        /\ crud_outcome = "ValueError"
            <=> \/ Named = <<>>
                \/ Named[1].hasRecurrenceRules
                    /\ call_args.occurrence_date = None
                \/ call_args.span \notin {"this", "future"}

\* C30 witness: update_event was given a new title and location for a stored
\* event that does not recur, with a span it does not know, and raised
\* ValueError
C30_Witness ==
    /\ op = "update_event"
    /\ Named # <<>>
    /\ ~Named[1].hasRecurrenceRules
    /\ call_args.span = "all"
    /\ call_args.title = <<"A">>
    /\ call_args.location = <<"A">>
    /\ crud_outcome = "ValueError"
    /\ crud_message = "span"

====
